---- MODULE Spec2Model ----
(***************************************************************************)
(* Model of src/trial.py: the Streamlit "GenAI SOW Architect" script.      *)
(*                                                                         *)
(*  - call_gemini_json / call_gemini_text: the bounded retry loops         *)
(*  - the GENERATE COMPLETE SOW DRAFT handler (8 section calls)            *)
(*  - the tabs that read the session state and the Tab 6 export gate       *)
(*  - create_pdf: the sequence of text writes it makes on the PDF          *)
(***************************************************************************)
EXTENDS Integers, Sequences, FiniteSets, TLC

VARIABLES
    pc,             \* position of the script: "standalone" | "idle" | "handler" | "tabs" | "tab6"
    trigger,        \* the widget event that started the script run
    fn,             \* function of the call in progress: "none" | "json" | "text"
    schema,         \* number of the section whose schema the call was given (0: none)
    i,              \* loop index of the retry loop
    sent,           \* requests.post calls made by the call in progress
    delays,         \* the time.sleep arguments of the call in progress, in order
    last,           \* outcome of the latest attempt of the call in progress
    ret,            \* value returned by the call
    shown,          \* what the current script run (or standalone call) has displayed
    hstep,          \* section step the handler is at (0: handler not running)
    generated_sow,  \* the handler's local dictionary
    progress,       \* value of the progress bar
    status_text,    \* content of the status placeholder
    requested,      \* sections requested by the handler in the latest script run, in order
    missing,        \* section calls of the current handler run that merged nothing
    results,        \* values the handler's local res has taken in the current run
    session_state,  \* st.session_state: its keys autofill_data and autofill_done
    fields,         \* widget values create_pdf reads (its closure variables)
    doc             \* text writes made by the latest create_pdf call, in order

vars == <<pc, trigger, fn, schema, i, sent, delays, last, ret, shown, hstep, generated_sow,
          progress, status_text, requested, missing, results, session_state, fields,
          doc>>

callVars == <<fn, schema, i, sent, delays, last, ret>>
handlerVars ==
    <<hstep, generated_sow, progress, status_text, requested, missing, results>>
sessionVars == <<session_state>>
pdfVars == <<fields, doc>>

-----------------------------------------------------------------------------
(* Bounds of the model *)

\* the calls of sections 1..UnmergedUpTo are the ones enumerated as ending without
\* a result the handler merges (the later calls fail too, and then succeed)
UnmergedUpTo == 2
\* longest stakeholder / timeline table enumerated for create_pdf
MaxRows == 2

-----------------------------------------------------------------------------
(* Python values *)

\* {} : the dictionary with no keys
EmptyDict == [x \in {} |-> 0]

\* dict.update(other): the keys of both, other's value winning on a shared key
\* a merge in which the keys already present keep their values
UpdateKeepsOld(d, other) ==
    [x \in (DOMAIN d) \cup (DOMAIN other) |->
        IF x \in DOMAIN d THEN d[x] ELSE other[x]]

Update(d, other) ==
    [x \in (DOMAIN d) \cup (DOMAIN other) |->
        IF x \in DOMAIN other THEN other[x] ELSE d[x]]

NoReturn == [kind |-> "pending", d |-> EmptyDict, s |-> ""]
PyNone == [kind |-> "None", d |-> EmptyDict, s |-> ""]
PyDict(d) == [kind |-> "dict", d |-> d, s |-> ""]
PyNumber == [kind |-> "number", d |-> EmptyDict, s |-> ""]
PyStr(s) == [kind |-> "str", d |-> EmptyDict, s |-> s]

\* Python truthiness of a returned value (the model's number is non-zero)
Truthy(v) ==
    CASE v.kind = "None" -> FALSE
      [] v.kind = "dict" -> DOMAIN v.d # {}
      [] v.kind = "str" -> v.s # ""
      [] OTHER -> TRUE

-----------------------------------------------------------------------------
(* The eight sections of the handler *)

NumSections == 8

SectionKeys(k) ==
    CASE k = 1 -> {"objective"}
      [] k = 2 -> {"stakeholders"}
      [] k = 3 -> {"dependencies", "assumptions"}
      [] k = 4 -> {"data_characteristics"}
      [] k = 5 -> {"success_criteria"}
      [] k = 6 -> {"technical_phases"}
      [] k = 7 -> {"architecture"}
      [] k = 8 -> {"timeline", "usage_users", "usage_requests"}
      [] OTHER -> {}

\* the bar set to 100 one step early
ProgressEarly(k) ==
    CASE k = 1 -> 12
      [] k = 2 -> 25
      [] k = 3 -> 37
      [] k = 4 -> 50
      [] k = 5 -> 62
      [] k = 6 -> 75
      [] k = 7 -> 100
      [] k = 8 -> 100
      [] OTHER -> 0

ProgressAfter(k) ==
    CASE k = 1 -> 12
      [] k = 2 -> 25
      [] k = 3 -> 37
      [] k = 4 -> 50
      [] k = 5 -> 62
      [] k = 6 -> 75
      [] k = 7 -> 87
      [] k = 8 -> 100
      [] OTHER -> 0

StatusAt(k) ==
    CASE k = 1 -> "1/8 Generating Specific Objective"
      [] k = 2 -> "2/8 Generating Stakeholder information..."
      [] k = 3 -> "3/8 Generating Specific Dependencies"
      [] k = 4 -> "4/8 Analyzing Data Characteristics..."
      [] k = 5 -> "5/8 Defining Technical Success Criteria..."
      [] k = 6 -> "6/8 Architecting Technical Scope"
      [] k = 7 -> "7/8 Selecting AWS Services..."
      [] k = 8 -> "8/8 Finalizing Timeline & Costing..."
      [] OTHER -> ""

-----------------------------------------------------------------------------
(* HTTP outcomes of one requests.post and the parsing of a 200 response *)

\* status 0: requests.post raised (timeout, connection error)
FailStatuses == {429, 500, 401, 400}

\* what a status-200 body holds, as far as the parsing code tells bodies apart:
\*   "full"    a JSON object with the keys of the schema
\*   "extra"   the same with an off-schema key "objective" added
\*   "empty"   no text part / the JSON object {}
\*   "null"    the JSON text null
\*   "number"  a JSON number
\*   "garbled" response.json() or json.loads raises
Bodies(f) ==
    IF f = "json" THEN {"full", "extra", "empty", "null", "number", "garbled"}
    ELSE {"full", "empty", "garbled"}

Outcomes(f) ==
    {[status |-> 0, body |-> "-"]}
        \cup {[status |-> s, body |-> "-"] : s \in FailStatuses}
        \cup {[status |-> 200, body |-> b] : b \in Bodies(f)}

NoOutcome == [status |-> -1, body |-> "-"]

\* the value a written key carries: the number of the section call that supplied it
FullDict(k) == [x \in SectionKeys(k) |-> k]
ExtraDict(k) == [x \in SectionKeys(k) \cup {"objective"} |-> k]

\* lines 89-91 / 113-114: the value returned for a status-200 body that parses
Parse(f, k, body) ==
    IF f = "json"
    THEN CASE body = "full" -> PyDict(FullDict(k))
           [] body = "extra" -> PyDict(ExtraDict(k))
           [] body = "empty" -> PyDict(EmptyDict)
           [] body = "null" -> PyNone
           [] OTHER -> PyNumber
    ELSE IF body = "full" THEN PyStr("generated text") ELSE PyStr("")

\* an exception reaches the except clause: from requests.post or from the parsing
Raises(o) == o.status = 0 \/ (o.status = 200 /\ o.body = "garbled")

\* the attempt returns from the function
Succeeds(o) == o.status = 200 /\ o.body # "garbled"

\* range(6) in place of range(5)
MaxAttemptsSix == 5 + 1

MaxAttempts == 5

\* the loop index at which call_gemini_json reports an exception
ReportIndex == 4

BackoffBase == 2

\* a fixed delay in place of the exponential one
BackoffFixed(n) == BackoffBase

Backoff(n) == BackoffBase ^ n

BusyMessage == "AI model busy. Please try clicking the button again."

\* the value returned after the loop
GiveUpValue(f) == IF f = "json" THEN PyNone ELSE PyStr(BusyMessage)

\* line 95: only call_gemini_json reports, only an exception, only at index 4
Reports(f, o, n) == f = "json" /\ Raises(o) /\ n = ReportIndex

-----------------------------------------------------------------------------
(* call_gemini_json (lines 69-97) and call_gemini_text (lines 99-119) *)

\* the call would end without a result the handler merges
EndsUnmerged(f, k, o, n) ==
    IF Succeeds(o) THEN ~Truthy(Parse(f, k, o.body)) ELSE n + 1 >= MaxAttempts

\* the outcomes enumerated for the calls the handler makes: the handler tells
\* results apart, not failures, so one failing status and the exception stand for
\* the failures, and the off-schema key is tried at the stakeholders call
HandlerSample(k) ==
    {[status |-> 0, body |-> "-"], [status |-> 500, body |-> "-"]}
        \cup {[status |-> 200, body |-> b] :
                 b \in {"full", "empty", "number"} \cup (IF k = 3 THEN {"extra"} ELSE {})}

\* the outcomes enumerated for an attempt: every outcome for a direct call; inside
\* the handler the sample, the calls after section UnmergedUpTo ending merged
Enumerated(f, k, o, n) ==
    \/ hstep = 0
    \/ /\ o \in HandlerSample(k)
       /\ k <= UnmergedUpTo \/ ~EndsUnmerged(f, k, o, n)

\* entry of either function: the loop starts at index 0
Enter(f, k) ==
    /\ fn' = f
    /\ schema' = k
    /\ i' = 0
    /\ sent' = 0
    /\ delays' = << >>
    /\ last' = NoOutcome
    /\ ret' = NoReturn

\* a direct call of either function, outside the handler
Call ==
    /\ pc = "standalone"
    /\ fn = "none" \/ ret.kind # "pending"
    /\ \E f \in {"json", "text"} :
          \E k \in (IF f = "json" THEN 1..NumSections ELSE {0}) : Enter(f, k)
    /\ shown' = {}
    /\ UNCHANGED <<pc, trigger, handlerVars, sessionVars, pdfVars>>

\* one iteration of `for i in range(5)`: the request, then return or sleep
Attempt ==
    /\ fn # "none"
    /\ ret.kind = "pending"
    /\ i < MaxAttempts
    /\ \E o \in Outcomes(fn) :
          /\ Enumerated(fn, schema, o, i)
          /\ sent' = sent + 1
          /\ last' = o
          /\ IF Succeeds(o)
             THEN /\ ret' = Parse(fn, schema, o.body)
                  /\ UNCHANGED <<i, delays, shown>>
             ELSE /\ shown' = IF Reports(fn, o, i)
                              THEN shown \cup {"API Connection Error"}
                              ELSE shown
                  /\ delays' = Append(delays, Backoff(i))
                  /\ i' = i + 1
                  /\ ret' = ret
    /\ UNCHANGED <<pc, trigger, fn, schema, handlerVars, sessionVars, pdfVars>>

\* the statement after the loop: return None / return the busy message
GiveUp ==
    /\ fn # "none"
    /\ ret.kind = "pending"
    /\ i >= MaxAttempts
    /\ ret' = GiveUpValue(fn)
    /\ UNCHANGED <<pc, trigger, fn, schema, i, sent, delays, last, shown,
                   handlerVars, sessionVars, pdfVars>>

\* the closure variables of create_pdf before the tabs have set them
NoFields ==
    [final_objective |-> << >>, updated_stakeholders |-> << >>, deps_text |-> << >>,
     assump_text |-> << >>, final_sc_text |-> << >>, p1 |-> << >>, p2 |-> << >>,
     p3 |-> << >>, p4 |-> << >>, final_timeline |-> << >>, compute |-> << >>,
     storage |-> << >>, ml_services |-> << >>, ui_layer |-> << >>,
     ownership |-> << >>, usage |-> << >>]

InitCommon ==
    /\ fn = "none"
    /\ schema = 0
    /\ i = 0
    /\ sent = 0
    /\ delays = << >>
    /\ last = NoOutcome
    /\ ret = NoReturn
    /\ shown = {}
    /\ hstep = 0
    /\ generated_sow = EmptyDict
    /\ progress = 0
    /\ status_text = ""
    /\ requested = << >>
    /\ missing = 0
    /\ results = << >>
    /\ doc = << >>

\* a process that calls the two functions directly
InitRetry ==
    /\ InitCommon
    /\ pc = "standalone"
    /\ trigger = "none"
    /\ session_state = EmptyDict
    /\ fields = NoFields

NextRetry == Call \/ Attempt \/ GiveUp

SpecRetry == InitRetry /\ [][NextRetry]_vars

-----------------------------------------------------------------------------
(* Text: a Python str is a sequence of characters. ASCII characters stand for    *)
(* themselves; the other characters the code tells apart have names.             *)

\* characters outside latin-1
NonLatin1 == {"endash", "emdash", "lsquo", "rsquo", "ldquo", "rdquo", "sbquo",
              "bullet", "euro"}

\* str.replace(pat, rep): the non-overlapping occurrences, left to right
RECURSIVE Replace(_, _, _)
Replace(t, pat, rep) ==
    IF Len(t) < Len(pat) THEN t
    ELSE IF SubSeq(t, 1, Len(pat)) = pat
         THEN rep \o Replace(SubSeq(t, Len(pat) + 1, Len(t)), pat, rep)
         ELSE <<t[1]>> \o Replace(Tail(t), pat, rep)

\* lines 60-63: the replacements dictionary, in its order. The last two keys are
\* the three-character strings the source file holds (U+201A o-acute e-grave and
\* U+201A A-umlaut cent).
Replacements ==
    << <<<<"endash">>, <<"-">>>>, <<<<"emdash">>, <<"-">>>>,
       <<<<"lsquo">>, <<"'">>>>, <<<<"rsquo">>, <<"'">>>>,
       <<<<"ldquo">>, <<"\"">>>>, <<<<"rdquo">>, <<"\"">>>>,
       <<<<"sbquo", "oacute", "egrave">>, <<"-">>>>,
       <<<<"sbquo", "Auml", "cent">>, <<"-">>>> >>

RECURSIVE ReplaceAll(_, _)
ReplaceAll(t, n) ==
    IF n > Len(Replacements) THEN t
    ELSE ReplaceAll(Replace(t, Replacements[n][1], Replacements[n][2]), n + 1)

\* text.encode('latin-1', 'replace').decode('latin-1')
Latin1(t) == [j \in 1..Len(t) |-> IF t[j] \in NonLatin1 THEN "?" ELSE t[j]]

\* clean_text, lines 58-66
clean_text(t) == Latin1(ReplaceAll(t, 1))

\* the slice text[:n]
Take(t, n) == SubSeq(t, 1, IF Len(t) < n THEN Len(t) ELSE n)

\* the role of a stakeholder whose item had no "role" key: s.get('role') is None
NoneRole == <<"None">>

-----------------------------------------------------------------------------
(* Texts the script holds as literals *)

\* lines 382-387
default_stakeholders ==
    << [role |->
           <<"P", "a", "r", "t", "n", "e", "r", " ", "E", "x", "e", "c", "u", "t", "i", "v", "e",
             " ", "S", "p", "o", "n", "s", "o", "r">>,
        name |->
           <<"R", "a", "m", " ", "J", "o", "s", "h", "i">>,
        title |->
           <<"H", "e", "a", "d", " ", "o", "f", " ", "A", "n", "a", "l", "y", "t", "i", "c", "s",
             " ", "&", " ", "M", "L">>,
        email |->
           <<"r", "a", "m", ".", "j", "o", "s", "h", "i", "@", "o", "n", "e", "t", "u", "r", "e",
             ".", "c", "o", "m">>],
       [role |->
           <<"C", "u", "s", "t", "o", "m", "e", "r", " ", "E", "x", "e", "c", "u", "t", "i", "v",
             "e", " ", "S", "p", "o", "n", "s", "o", "r">>,
        name |->
           <<"T", "B", "D">>,
        title |->
           <<"H", "e", "a", "d", " ", "o", "f", " ", "P", "r", "o", "d", "u", "c", "t">>,
        email |->
           <<"c", "l", "i", "e", "n", "t", "@", "e", "x", "a", "m", "p", "l", "e", ".", "c", "o",
             "m">>],
       [role |->
           <<"A", "W", "S", " ", "E", "x", "e", "c", "u", "t", "i", "v", "e", " ", "S", "p", "o",
             "n", "s", "o", "r">>,
        name |->
           <<"A", "n", "u", "b", "h", "a", "v", " ", "S", "o", "o", "d">>,
        title |->
           <<"A", "W", "S", " ", "A", "c", "c", "o", "u", "n", "t", " ", "E", "x", "e", "c", "u",
             "t", "i", "v", "e">>,
        email |->
           <<"a", "n", "b", "h", "s", "o", "o", "d", "@", "a", "m", "a", "z", "o", "n", ".", "c",
             "o", "m">>],
       [role |->
           <<"P", "r", "o", "j", "e", "c", "t", " ", "E", "s", "c", "a", "l", "a", "t", "i", "o",
             "n", " ", "C", "o", "n", "t", "a", "c", "t", "s">>,
        name |->
           <<"O", "m", "k", "a", "r", " ", "D", "h", "a", "v", "a", "l", "i", "k", "a", "r">>,
        title |->
           <<"A", "I", "/", "M", "L", " ", "L", "e", "a", "d">>,
        email |->
           <<"o", "m", "k", "a", "r", ".", "d", "h", "a", "v", "a", "l", "i", "k", "a", "r", "@",
             "o", "n", "e", "t", "u", "r", "e", ".", "c", "o", "m">>] >>

\* line 416, joined by "\n"
DefaultDepsText ==
    <<"D", "a", "t", "a", " ", "a", "c", "c", "e", "s", "s", " ", "p", "r", "o", "v", "i",
          "d", "e", "d", "\n", "A", "W", "S", " ", "a", "c", "c", "e", "s", "s", " ", "p",
          "r", "o", "v", "i", "d", "e", "d">>

\* line 421, joined by "\n"
DefaultAssumpText ==
    <<"P", "O", "C", " ", "i", "s", " ", "n", "o", "t", " ", "p", "r", "o", "d", "u", "c",
          "t", "i", "o", "n", " ", "r", "e", "a", "d", "y", "\n", "E", "n", "g", "l", "i",
          "s", "h", " ", "l", "a", "n", "g", "u", "a", "g", "e", " ", "o", "n", "l", "y">>

\* line 484, as line 492 stores it
DefaultTimeline ==
    << [Phase |-> <<"S", "e", "t", "u", "p">>, Task |->
        <<"I", "n", "i", "t", "i", "a", "l", " ", "S", "e", "t", "u", "p">>, Weeks |-> <<"W", "k", "1">>] >>

\* the first option of each selectbox / the multiselect defaults, lines 473-479, 499
DefaultCompute ==
    <<"A", "W", "S", " ", "L", "a", "m", "b", "d", "a", " ", "+", " ", "S", "t", "e", "p",
          " ", "F", "u", "n", "c", "t", "i", "o", "n", "s">>
DefaultStorage == <<"A", "m", "a", "z", "o", "n", " ", "S", "3">>
DefaultMl ==
    <<"A", "m", "a", "z", "o", "n", " ", "B", "e", "d", "r", "o", "c", "k">>
DefaultUi ==
    <<"S", "t", "r", "e", "a", "m", "l", "i", "t", " ", "o", "n", " ", "S", "3">>
DefaultOwnership ==
    <<"F", "u", "n", "d", "e", "d", " ", "b", "y", " ", "A", "W", "S">>

-----------------------------------------------------------------------------
(* create_pdf, lines 505-610: the text it writes on the document, in order.     *)
(* A write is [op, h, t]: the FPDF method, the literal label of the call and the *)
(* cleaned text that follows it. Fonts, line breaks and the page header and      *)
(* footer FPDF adds at page breaks are left out.                                 *)

Title(h) == [op |-> "chapter_title", h |-> h, t |-> << >>]
Cell(h, t) == [op |-> "cell", h |-> h, t |-> t]
MultiCell(t) == [op |-> "multi_cell", h |-> "", t |-> t]

\* lines 531-534: the four cells of a stakeholder row
StakeholderCells(s) ==
    << Cell("", clean_text(Take(s.role, 20))), Cell("", clean_text(Take(s.name, 25))),
       Cell("", clean_text(Take(s.title, 25))), Cell("", clean_text(Take(s.email, 25))) >>

\* lines 591-593: the three cells of a timeline row
TimelineCells(t) ==
    << Cell("", clean_text(Take(t.Phase, 20))), Cell("", clean_text(Take(t.Task, 60))),
       Cell("", clean_text(Take(t.Weeks, 20))) >>

\* the rows before the first one whose role is None: None[:20] raises there
RECURSIVE SliceableRows(_)
SliceableRows(rows) ==
    IF rows = << >> \/ Head(rows).role = NoneRole THEN << >>
    ELSE <<Head(rows)>> \o SliceableRows(Tail(rows))

\* lines 530-534: the loop over updated_stakeholders
RECURSIVE StakeholderLoop(_)
StakeholderLoop(rows) ==
    IF rows = << >> THEN << >>
    ELSE StakeholderCells(Head(rows)) \o StakeholderLoop(Tail(rows))

\* lines 590-593: the loop over final_timeline
RECURSIVE TimelineLoop(_)
TimelineLoop(rows) ==
    IF rows = << >> THEN << >>
    ELSE TimelineCells(Head(rows)) \o TimelineLoop(Tail(rows))

\* lines 510-527
OverviewWrites(f) ==
    << Title("2. PROJECT OVERVIEW"),
       Cell("2.1 OBJECTIVE", << >>),
       MultiCell(clean_text(f.final_objective)),
       Cell("2.2 PROJECT SPONSOR(S) / STAKEHOLDER(S)", << >>),
       Cell("Role", << >>), Cell("Name", << >>), Cell("Title", << >>),
       Cell("Email", << >>) >>

\* the assumptions written before the dependencies
AssumptionsFirst(f) ==
    << Title("2.3 ASSUMPTIONS & DEPENDENCIES"),
       Cell("Assumptions:", << >>),
       MultiCell(clean_text(f.assump_text)),
       Cell("Dependencies:", << >>),
       MultiCell(clean_text(f.deps_text)) >>

\* lines 538-547
DependencyWrites(f) ==
    << Title("2.3 ASSUMPTIONS & DEPENDENCIES"),
       Cell("Dependencies:", << >>),
       MultiCell(clean_text(f.deps_text)),
       Cell("Assumptions:", << >>),
       MultiCell(clean_text(f.assump_text)) >>

\* lines 551-552
CriteriaWrites(f) ==
    << Title("2.4 PoC SUCCESS CRITERIA"),
       MultiCell(clean_text(f.final_sc_text)) >>

\* lines 556-578
ScopeWrites(f) ==
    << Title("3. SCOPE OF WORK - TECHNICAL PROJECT PLAN"),
       Cell("Phase 1: Infrastructure Setup", << >>), MultiCell(clean_text(f.p1)),
       Cell("Phase 2: Core Workflows", << >>), MultiCell(clean_text(f.p2)),
       Cell("Phase 3: Backend Components", << >>), MultiCell(clean_text(f.p3)),
       Cell("Phase 4: Feedback & Testing", << >>), MultiCell(clean_text(f.p4)) >>

\* lines 582-587
TimelineHeaderWrites ==
    << Cell("Development Timelines", << >>),
       Cell("Phase", << >>), Cell("Task", << >>), Cell("Weeks", << >>) >>

\* lines 597-608 (the usage numbers are written without clean_text)
ArchitectureWrites(f) ==
    << Title("4. SOLUTION ARCHITECTURE"),
       Cell("Compute: ", clean_text(f.compute)),
       Cell("Storage: ", clean_text(f.storage)),
       Cell("ML Services: ", clean_text(f.ml_services)),
       Cell("UI Layer: ", clean_text(f.ui_layer)),
       Title("5. RESOURCES & COST ESTIMATES"),
       Cell("Cost Ownership: ", clean_text(f.ownership)),
       Cell("Usage Estimates: ", f.usage) >>

\* the whole function: the writes made, and whether it raised (a role that is
\* None stops it inside the stakeholder loop)
create_pdf(f) ==
    LET ok == SliceableRows(f.updated_stakeholders)
        head == OverviewWrites(f) \o StakeholderLoop(ok)
    IN  IF Len(ok) < Len(f.updated_stakeholders)
        THEN [raised |-> TRUE, writes |-> head]
        ELSE [raised |-> FALSE,
              writes |-> head \o DependencyWrites(f) \o CriteriaWrites(f)
                            \o ScopeWrites(f) \o TimelineHeaderWrites
                            \o TimelineLoop(f.final_timeline)
                            \o ArchitectureWrites(f)]

-----------------------------------------------------------------------------
(* Widget values. The model does not carry the text of a session value, only who *)
(* supplied it (LlmValue); the texts below stand for what the language model and  *)
(* the user supply.                                                              *)

\* the value under key came from a section call
LlmValue(data, key) == key \in DOMAIN data /\ data[key] >= 1

LlmObjective ==
    <<"C", "u", "t", " ", "c", "o", "s", "t", " ", "endash", " ", "b", "y", " ", "5", "euro">>
LlmLines ==
    <<"S", "3", " ", "a", "c", "c", "e", "s", "s", "\n", "sbquo", "oacute", "egrave", " ", "I", "A", "M">>
\* lines 443-447 applied to one heading with one point
LlmCriteriaText ==
    <<"*", "*", "D", "e", "m", "o", "*", "*", "\n", "-", " ", "9", "5", "%", " ", "bullet", " ", "f", "a", "s", "t", "\n", "\n">>
LlmStakeholders ==
    << [role |-> <<"C", "u", "s", "t", "o", "m", "e", "r", " ", "E", "x", "e", "c", "u", "t", "i", "v", "e", " ", "S", "p", "o", "n", "s", "o", "r">>,
        name |-> <<"A", "n", "a", " ", "ldquo", "A", "l", "rdquo", " ", "O", "rsquo", "N", "e", "i", "l">>,
        title |-> <<"C", "T", "O">>,
        email |-> <<"a", "n", "a", ".", "o", "n", "e", "i", "l", "@", "a", "-", "v", "e", "r", "y", "-", "l", "o", "n", "g", "-", "d", "o", "m", "a", "i", "n", ".", "e", "x", "a", "m", "p", "l", "e">>] >>
\* an item the model returned without a "role" key, as line 398 stores it
LlmStakeholdersNoRole ==
    << [role |-> NoneRole, name |-> <<"B", "o">>, title |-> << >>, email |-> << >>] >>
LlmTimeline ==
    << [Phase |-> <<"P", "1">>, Task |-> <<"B", "u", "i", "l", "d">>,
        Weeks |-> <<"W", "k", "1", "endash", "W", "k", "2">>],
       [Phase |-> <<"P", "2">>, Task |-> <<"T", "e", "s", "t">>,
        Weeks |-> <<"W", "k", "3">>] >>
DefaultUsage ==
    <<"1", "0", "0", " ", "u", "s", "e", "r", "s", ",", " ", "5", " ", "r", "e", "q", "u", "e", "s", "t", "s", "/", "d", "a", "y">>

\* what is not modelled of the content: "plain" (as supplied), "blank" (the user
\* emptied the text areas), "norole" (a supplied stakeholder had no role)
Variants(data) ==
    {"plain", "blank"} \cup
        (IF LlmValue(data, "stakeholders") THEN {"norole"} ELSE {})

\* lines 369-499: the values the widgets of tabs 2 to 5 return
Widgets(data, v) ==
    LET text(key, supplied, default) ==
            IF v = "blank" THEN << >>
            ELSE IF LlmValue(data, key) THEN supplied ELSE default
    IN  [final_objective |-> text("objective", LlmObjective, << >>),
         updated_stakeholders |->
            IF LlmValue(data, "stakeholders")
            THEN (IF v = "norole" THEN LlmStakeholdersNoRole ELSE LlmStakeholders)
            ELSE default_stakeholders,
         deps_text |-> text("dependencies", LlmLines, DefaultDepsText),
         assump_text |-> text("assumptions", LlmLines, DefaultAssumpText),
         final_sc_text |-> text("success_criteria", LlmCriteriaText, << >>),
         p1 |-> text("technical_phases", LlmLines, << >>),
         p2 |-> text("technical_phases", LlmLines, << >>),
         p3 |-> text("technical_phases", LlmLines, << >>),
         p4 |-> text("technical_phases", LlmLines, << >>),
         final_timeline |->
            IF LlmValue(data, "timeline") THEN LlmTimeline ELSE DefaultTimeline,
         compute |-> DefaultCompute,
         storage |-> DefaultStorage,
         ml_services |-> DefaultMl,
         ui_layer |-> DefaultUi,
         ownership |-> DefaultOwnership,
         usage |-> DefaultUsage]

\* lines 377 and 406 (402 before st.rerun): tab 2 stores the objective and the
\* stakeholders back; who supplied them stays, a key not yet there is the form's
Tab2Writes(data) ==
    Update(data, [x \in {"objective", "stakeholders"} |->
                     IF x \in DOMAIN data THEN data[x] ELSE 0])

Tab2Stores(ss) == [ss EXCEPT !.autofill_data = Tab2Writes(ss.autofill_data)]

\* keys whose values tabs 3 to 5 pass to join, multiselect and int unchecked
UncheckedKeys ==
    {"dependencies", "assumptions", "technical_phases", "architecture",
     "usage_users", "usage_requests"}

-----------------------------------------------------------------------------
(* The script run: lines 121-158, the handler of lines 160-365, the tabs *)

SuccessStatus == "Complete SOW Draft Generated Successfully!"
PausedStatus == "Generation paused due to an error."
HandlerError == "An error occurred during part-by-part generation"
ToastText == "Check Tab 6 for the Final PDF Report."
WarningText == "Please generate the SOW in Tab 1 first."
DownloadButton == "Download SOW (PDF)"
PdfError == "Error generating PDF"

\* no call in progress
CallReset ==
    /\ fn' = "none"
    /\ schema' = 0
    /\ i' = 0
    /\ sent' = 0
    /\ delays' = << >>
    /\ last' = NoOutcome
    /\ ret' = NoReturn

\* the locals of a script run that ended
LocalsGone ==
    /\ hstep' = 0
    /\ generated_sow' = EmptyDict
    /\ missing' = 0
    /\ results' = << >>

\* lines 122-125: a key is set only when the session does not hold it yet
SessionInit(ss) ==
    [autofill_data |-> IF "autofill_data" \in DOMAIN ss THEN ss.autofill_data
                       ELSE EmptyDict,
     autofill_done |-> IF "autofill_done" \in DOMAIN ss THEN ss.autofill_done
                       ELSE FALSE]

\* what starts a script run: the page load for a new session (st.button returns
\* False in a run no widget event started), a widget event afterwards
Events(ss) ==
    IF DOMAIN ss = {} THEN {"load"} ELSE {"generate", "add_stakeholder", "other"}

\* the script runs from the top: lines 122-158, and 160-169 when the event is a
\* press of the generate button
RunScript ==
    /\ pc = "idle"
    /\ \E t \in Events(session_state) :
          /\ trigger' = t
          /\ pc' = IF t = "generate" THEN "handler" ELSE "tabs"
          /\ hstep' = IF t = "generate" THEN 1 ELSE 0
    /\ session_state' = SessionInit(session_state)
    /\ shown' = {}
    /\ generated_sow' = EmptyDict
    /\ progress' = 0
    /\ status_text' = ""
    /\ requested' = << >>
    /\ missing' = 0
    /\ results' = << >>
    /\ fields' = NoFields
    /\ doc' = << >>
    /\ CallReset

\* the status line of a section and the entry into its call_gemini_json call
HandlerRequest ==
    /\ pc = "handler"
    /\ hstep \in 1..NumSections
    /\ fn = "none"
    /\ status_text' = StatusAt(hstep)
    /\ requested' = Append(requested, hstep)
    /\ Enter("json", hstep)
    /\ UNCHANGED <<pc, trigger, shown, hstep, generated_sow, progress, missing, results,
                   sessionVars, pdfVars>>

\* dict.update raises for a result that is not a dictionary
UpdateRaises(v) == v.kind # "dict"

\* `if res: generated_sow.update(res)` and the progress call that follows
HandlerMerge ==
    /\ pc = "handler"
    /\ hstep \in 1..NumSections
    /\ fn = "json"
    /\ ret.kind # "pending"
    /\ ~(Truthy(ret) /\ UpdateRaises(ret))
    /\ generated_sow' = IF Truthy(ret) THEN Update(generated_sow, ret.d)
                        ELSE generated_sow
    /\ missing' = IF Truthy(ret) THEN missing ELSE missing + 1
    /\ results' = Append(results, ret)
    /\ progress' = ProgressAfter(hstep)
    /\ hstep' = hstep + 1
    /\ CallReset
    /\ UNCHANGED <<pc, trigger, shown, status_text, requested, sessionVars, pdfVars>>

\* the except clause keeping what the completed steps produced
HandlerExceptStores ==
    /\ pc = "handler"
    /\ hstep \in 1..NumSections
    /\ fn = "json"
    /\ ret.kind # "pending"
    /\ Truthy(ret) /\ UpdateRaises(ret)
    /\ shown' = shown \cup {HandlerError}
    /\ status_text' = PausedStatus
    /\ session_state' = [session_state EXCEPT !.autofill_data = generated_sow]
    /\ pc' = "tabs"
    /\ hstep' = 0
    /\ CallReset
    /\ results' = Append(results, ret)
    /\ UNCHANGED <<trigger, generated_sow, progress, requested, missing, pdfVars>>

\* lines 363-365: the update raised
HandlerExcept ==
    /\ pc = "handler"
    /\ hstep \in 1..NumSections
    /\ fn = "json"
    /\ ret.kind # "pending"
    /\ Truthy(ret) /\ UpdateRaises(ret)
    /\ shown' = shown \cup {HandlerError}
    /\ status_text' = PausedStatus
    /\ pc' = "tabs"
    /\ hstep' = 0
    /\ CallReset
    /\ results' = Append(results, ret)
    /\ UNCHANGED <<trigger, generated_sow, progress, requested, missing,
                   sessionVars, pdfVars>>

\* lines 357-361
Finalize ==
    /\ pc = "handler"
    /\ hstep = NumSections + 1
    /\ session_state' = [autofill_data |-> generated_sow, autofill_done |-> TRUE]
    /\ status_text' = SuccessStatus
    /\ shown' = shown \cup {ToastText}
    /\ pc' = "tabs"
    /\ hstep' = 0
    /\ UNCHANGED <<trigger, callVars, generated_sow, progress, requested, missing, results,
                   pdfVars>>

\* tabs 2 to 5 run through: lines 368-499
Tabs2to5 ==
    /\ pc = "tabs"
    /\ trigger # "add_stakeholder"
    /\ session_state' = Tab2Stores(session_state)
    /\ \E v \in Variants(session_state.autofill_data) :
          fields' = Widgets(session_state.autofill_data, v)
    /\ pc' = "tab6"
    /\ UNCHANGED <<trigger, callVars, shown, handlerVars, doc>>

\* lines 400-403: the "+ Add Stakeholder" button stores the list and reruns
AddStakeholder ==
    /\ pc = "tabs"
    /\ trigger = "add_stakeholder"
    /\ session_state' = Tab2Stores(session_state)
    /\ trigger' = "rerun"
    /\ pc' = "idle"
    /\ LocalsGone
    /\ UNCHANGED <<callVars, shown, progress, status_text, requested, pdfVars>>

\* a supplied value of the wrong shape raises in tabs 3 to 5 (join at 417, 422,
\* 457-466; multiselect at 475, 477; int at 497, 498): the run ends there
TabsRaise ==
    /\ pc = "tabs"
    /\ trigger # "add_stakeholder"
    /\ \E key \in UncheckedKeys : LlmValue(session_state.autofill_data, key)
    /\ session_state' = Tab2Stores(session_state)
    /\ shown' = shown \cup {"uncaught exception"}
    /\ pc' = "idle"
    /\ LocalsGone
    /\ UNCHANGED <<trigger, callVars, progress, status_text, requested, pdfVars>>

\* the gate left open
ExportAlways(ss) == TRUE

\* line 618: `if st.session_state.autofill_done:`
ExportGate(ss) == ss.autofill_done

\* tab 6, lines 618-631
Tab6 ==
    /\ pc = "tab6"
    /\ IF ExportGate(session_state)
       THEN LET r == create_pdf(fields)
            IN  /\ doc' = r.writes
                /\ shown' = shown \cup (IF r.raised THEN {PdfError, "pip install fpdf"}
                                        ELSE {DownloadButton})
       ELSE /\ doc' = doc
            /\ shown' = shown \cup {WarningText}
    /\ pc' = "idle"
    /\ LocalsGone
    /\ UNCHANGED <<trigger, callVars, progress, status_text, requested, sessionVars,
                   fields>>

\* a new session: st.session_state holds nothing
Init ==
    /\ InitCommon
    /\ pc = "idle"
    /\ trigger = "none"
    /\ session_state = EmptyDict
    /\ fields = NoFields

Next ==
    \/ RunScript
    \/ HandlerRequest
    \/ Attempt
    \/ GiveUp
    \/ HandlerMerge
    \/ HandlerExcept
    \/ Finalize
    \/ Tabs2to5
    \/ AddStakeholder
    \/ TabsRaise
    \/ Tab6

Spec == Init /\ [][Next]_vars

-----------------------------------------------------------------------------
(* create_pdf on enumerated widget values: the script at line 618, the flag set *)

\* the sequences over S of length at most n
SeqsUpTo(S, n) == UNION {[1..m -> S] : m \in 0..n}

LongTask == [j \in 1..61 |-> IF j = 61 THEN "!" ELSE "t"]

StakeholderSamples ==
    {LlmStakeholders[1], default_stakeholders[2], LlmStakeholdersNoRole[1]}

TimelineSamples ==
    {LlmTimeline[1], [Phase |-> <<"P", "9">>, Task |-> LongTask, Weeks |-> << >>]}

PdfInputs ==
    {[NoFields EXCEPT
        !.final_objective = obj, !.updated_stakeholders = st, !.deps_text = deps,
        !.assump_text = DefaultAssumpText, !.final_sc_text = sc,
        !.p1 = ph, !.p2 = <<"b">>, !.p3 = <<"c">>, !.p4 = <<"d">>,
        !.final_timeline = tl, !.compute = DefaultCompute, !.storage = DefaultStorage,
        !.ml_services = DefaultMl, !.ui_layer = DefaultUi,
        !.ownership = DefaultOwnership, !.usage = DefaultUsage] :
        obj \in {<< >>, LlmObjective}, st \in SeqsUpTo(StakeholderSamples, MaxRows),
        deps \in {<< >>, LlmLines}, sc \in {<< >>, LlmCriteriaText},
        ph \in {<< >>, LlmLines}, tl \in SeqsUpTo(TimelineSamples, MaxRows)}

\* the draft of a handler run in which every call returned its section
RECURSIVE DraftUpTo(_)
DraftUpTo(k) == IF k = 0 THEN EmptyDict ELSE Update(DraftUpTo(k - 1), FullDict(k))

InitPdf ==
    /\ InitCommon
    /\ pc = "tab6"
    /\ trigger = "other"
    /\ session_state = [autofill_data |-> Tab2Writes(DraftUpTo(NumSections)),
                        autofill_done |-> TRUE]
    /\ fields \in PdfInputs

NextPdf == Tab6

SpecPdf == InitPdf /\ [][NextPdf]_vars

-----------------------------------------------------------------------------
(* Claims about the retry loops, checked under SpecRetry *)

TerminalStatuses == {401, 400}
RetryableStatuses == {429, 500}

\* C1 as stated: a call sends at most 5 requests and sends no request after an
\* attempt that returned status 200.
C1_NoRequestAfter200 ==
    [][sent' > sent => (sent' <= 5 /\ last.status # 200)]_vars

\* C1 amended: a call sends at most 5 requests, sends no request after an attempt
\* that returned status 200 with a body that parsed (the attempt that returns), and
\* once 5 requests are sent the only step left is the return.
C1_AtMostFiveRequests ==
    [][/\ sent' > sent => (sent' <= 5 /\ ~Succeeds(last) /\ ret.kind = "pending")
       /\ (sent = 5 /\ ret.kind = "pending") => (sent' = 5 /\ ret'.kind # "pending")
      ]_vars

\* a status-200 attempt whose body did not parse was followed by further requests,
\* and the call returned at its fifth request
C1_Witness ==
    /\ fn = "json"
    /\ sent = 5
    /\ Succeeds(last)
    /\ ret.kind = "dict"
    /\ Len(delays) = 4

\* C2: the delay after failed attempt n (n = 0..4) is 2^n seconds whatever the
\* failure was, so the delays of a call are 1, 2, 4, 8, 16: strictly increasing,
\* each twice the previous one.
C2_DelaysDouble ==
    fn # "none" =>
        /\ Len(delays) = i
        /\ \A j \in 1..Len(delays) : delays[j] = 2 ^ (j - 1)
        /\ \A j \in 2..Len(delays) :
              delays[j] > delays[j - 1] /\ delays[j] = 2 * delays[j - 1]

\* five attempts of call_gemini_text failed, the last by an exception
C2_Witness ==
    /\ fn = "text"
    /\ delays = <<1, 2, 4, 8, 16>>
    /\ last.status = 0

\* C3 as stated: after a terminal failure (a 4xx status other than 429) the call
\* makes no further attempt.
C3_TerminalEndsCall ==
    [][(fn # "none" /\ last.status \in TerminalStatuses) => sent' <= sent]_vars

\* C4 as stated: a call returns the payload of a status-200 response or, after 5
\* failed attempts, an error string, for call_gemini_json and call_gemini_text alike.
C4_PayloadOrErrorString ==
    ret.kind # "pending" =>
        IF Succeeds(last)
        THEN ret = Parse(fn, schema, last.body)
        ELSE sent = 5 /\ ret.kind = "str" /\ ret.s # ""

\* C7 as stated: call_gemini_json shows a failure message exactly for the calls in
\* which all 5 attempts failed.
C7_FailureReported ==
    (fn = "json" /\ ret.kind # "pending") =>
        (("API Connection Error" \in shown) <=> ~Succeeds(last))

-----------------------------------------------------------------------------
(* Claims about create_pdf, checked under SpecPdf *)

FixedOrder ==
    << "2. PROJECT OVERVIEW", "2.1 OBJECTIVE",
       "2.2 PROJECT SPONSOR(S) / STAKEHOLDER(S)",
       "2.3 ASSUMPTIONS & DEPENDENCIES", "Dependencies:", "Assumptions:",
       "2.4 PoC SUCCESS CRITERIA",
       "3. SCOPE OF WORK - TECHNICAL PROJECT PLAN",
       "Phase 1: Infrastructure Setup", "Phase 2: Core Workflows",
       "Phase 3: Backend Components", "Phase 4: Feedback & Testing",
       "Development Timelines", "4. SOLUTION ARCHITECTURE",
       "5. RESOURCES & COST ESTIMATES" >>

IsSectionLabel(w) == \E n \in 1..Len(FixedOrder) : w.h = FixedOrder[n]

\* the section headings of a document, in the order written
Headings(d) ==
    LET sel == SelectSeq(d, IsSectionLabel) IN [n \in 1..Len(sel) |-> sel[n].h]

IsPrefix(a, b) == Len(a) <= Len(b) /\ \A n \in 1..Len(a) : a[n] = b[n]

\* the position of the write labelled h
At(d, h) == CHOOSE n \in 1..Len(d) : d[n].h = h

Has(d, h) == \E n \in 1..Len(d) : d[n].h = h

\* the cells d[from+1 .. from+Len(rows)*Len(cols)] are the rows, in order, each row
\* its columns in order, sliced to the column's width and cleaned
RowsInOrder(d, from, rows, cols, widths) ==
    /\ Len(d) >= from + Len(rows) * Len(cols)
    /\ \A r \in 1..Len(rows) : \A c \in 1..Len(cols) :
          LET w == d[from + (r - 1) * Len(cols) + c]
          IN  w.op = "cell" /\ w.h = "" /\ w.t = clean_text(Take(rows[r][cols[c]], widths[c]))

\* C5: whatever the fields hold, a create_pdf call that returns has written the
\* section headings in the one fixed order, the stakeholder rows between the table
\* header and section 2.3 in list order, and the timeline rows between their header
\* and section 4 in list order; a call that raises has written a prefix of it.
C5_FixedOrder ==
    doc # << >> =>
        /\ IsPrefix(Headings(doc), FixedOrder)
        /\ DownloadButton \in shown =>
              /\ Headings(doc) = FixedOrder
              /\ RowsInOrder(doc, At(doc, "Email"), fields.updated_stakeholders,
                             <<"role", "name", "title", "email">>, <<20, 25, 25, 25>>)
              /\ doc[At(doc, "Email") + 4 * Len(fields.updated_stakeholders) + 1].h
                     = "2.3 ASSUMPTIONS & DEPENDENCIES"
              /\ RowsInOrder(doc, At(doc, "Weeks"), fields.final_timeline,
                             <<"Phase", "Task", "Weeks">>, <<20, 60, 20>>)
              /\ doc[At(doc, "Weeks") + 3 * Len(fields.final_timeline) + 1].h
                     = "4. SOLUTION ARCHITECTURE"

\* a document with two different stakeholder rows, two different timeline rows, an
\* empty objective and a non-empty phase text
C5_Witness ==
    /\ pc = "idle"
    /\ DownloadButton \in shown
    /\ Len(fields.updated_stakeholders) = 2
    /\ fields.updated_stakeholders[1] # fields.updated_stakeholders[2]
    /\ Len(fields.final_timeline) = 2
    /\ fields.final_timeline[1] # fields.final_timeline[2]
    /\ fields.final_objective = << >>
    /\ fields.p1 # << >>
    /\ Len(doc) = 50

\* C6 as stated: a section whose content is empty is left out of the document,
\* heading and body.
C6_EmptySkipped ==
    DownloadButton \in shown =>
        /\ fields.final_objective = << >> => ~Has(doc, "2.1 OBJECTIVE")
        /\ fields.final_sc_text = << >> => ~Has(doc, "2.4 PoC SUCCESS CRITERIA")
        /\ fields.p1 = << >> => ~Has(doc, "Phase 1: Infrastructure Setup")
        /\ fields.updated_stakeholders = << >>
              => ~Has(doc, "2.2 PROJECT SPONSOR(S) / STAKEHOLDER(S)")
        /\ fields.final_timeline = << >> => ~Has(doc, "Development Timelines")
        /\ \A n \in 1..Len(doc) : doc[n].op = "multi_cell" => doc[n].t # << >>

-----------------------------------------------------------------------------
(* Claims about the generate handler and the export gate, checked under Spec *)

Done == "autofill_done" \in DOMAIN session_state /\ session_state.autofill_done

ClaimedKeys ==
    {"objective", "stakeholders", "dependencies", "assumptions",
     "data_characteristics", "success_criteria", "technical_phases", "architecture",
     "timeline"}

ClaimedOrder ==
    <<"objective", "stakeholders", "dependencies", "data_characteristics",
      "success_criteria", "technical_phases", "architecture", "timeline">>

ClaimedProgress == <<12, 25, 37, 50, 62, 75, 87, 100>>

ProgressAt(n) == IF n = 0 THEN 0 ELSE ClaimedProgress[n]

\* C9: a handler run requests the sections in the order objective, stakeholders,
\* dependencies & assumptions, data characteristics, success criteria, technical
\* scope, architecture, timeline & costs; a section is requested only when no call
\* is in progress and the bar shows the value of the section before it; the bar
\* moves only from one of 0, 12, 25, 37, 50, 62, 75, 87 to the next value, when the
\* call in progress has returned; it shows 100 only after the eighth call returned.
C9_SectionsInOrder ==
    /\ [](/\ \A n \in 1..Len(requested) :
                requested[n] = n /\ ClaimedOrder[n] \in SectionKeys(requested[n])
          /\ Len(requested) <= 8
          /\ pc = "handler" =>
                progress = ProgressAt(Len(requested) - (IF fn = "none" THEN 0 ELSE 1))
          /\ progress = 100 => (Len(requested) = 8 /\ ret.kind = "pending" /\ fn = "none"))
    /\ [][/\ (requested' # requested /\ requested' # << >>) =>
                /\ fn = "none" /\ fn' = "json"
                /\ requested' = Append(requested, Len(requested) + 1)
                /\ schema' = Len(requested')
                /\ progress = ProgressAt(Len(requested))
          /\ (progress' # progress /\ progress' # 0) =>
                /\ fn = "json" /\ ret.kind # "pending"
                /\ \E n \in 1..8 : progress = ProgressAt(n - 1) /\ progress' = ProgressAt(n)
                /\ progress' > progress
         ]_vars

\* the eighth call has returned and the bar shows 100, after a call of the run
\* ended without a result
C9_Witness ==
    /\ pc = "handler"
    /\ progress = 100
    /\ requested = <<1, 2, 3, 4, 5, 6, 7, 8>>
    /\ missing = 1

\* C10: create_pdf is called and the download button offered only when
\* autofill_done is True; at line 618 with the flag False the warning is shown and
\* create_pdf is not called; the flag is False after the first run's
\* initialisation and becomes True only by the Finalize step of a handler run that
\* has requested all 8 sections and reached 100 without the except clause.
C10_ExportGated ==
    /\ [](/\ doc # << >> => Done
          /\ DownloadButton \in shown => (Done /\ doc # << >>)
          /\ WarningText \in shown => (~Done /\ doc = << >>))
    /\ [][/\ pc = "tab6" =>
                IF Done THEN doc' # << >> /\ WarningText \notin shown'
                ELSE WarningText \in shown' /\ doc' = << >> /\ DownloadButton \notin shown'
          /\ (DOMAIN session_state = {} /\ DOMAIN session_state' # {}) =>
                session_state'.autofill_done = FALSE
          /\ (~Done /\ Done') =>
                /\ pc = "handler"
                /\ requested = <<1, 2, 3, 4, 5, 6, 7, 8>>
                /\ progress = 100
                /\ HandlerError \notin shown
                /\ status_text' = SuccessStatus
         ]_vars

\* a run that passed the gate with the flag set by an earlier handler run
C10_Witness ==
    /\ pc = "idle"
    /\ Done
    /\ DownloadButton \in shown
    /\ doc # << >>
    /\ trigger = "other"

-----------------------------------------------------------------------------
(* Claims about what the handler leaves in the session state, checked under Spec *)

\* C11: the script run a press of the generate button starts leaves the session
\* state as it was up to the Finalize step, so a run that reaches the except clause
\* (a truthy result that is not a dictionary being merged) has changed neither
\* autofill_data nor autofill_done; the except clause sets the status to
\* "Generation paused due to an error.", shows the error and ends the handler, and
\* the sections after the failing one are not requested in that run.
C11_ExceptionKeepsSession ==
    /\ [](status_text = PausedStatus =>
              /\ pc # "handler" /\ hstep = 0 /\ fn = "none"
              /\ HandlerError \in shown
              /\ Len(requested) \in 1..8)
    /\ [][/\ (pc = "idle" /\ trigger' = "generate") => session_state' = session_state
          /\ (pc = "handler" /\ status_text' # SuccessStatus) =>
                session_state' = session_state
          /\ (status_text # PausedStatus /\ status_text' = PausedStatus) =>
                /\ pc = "handler" /\ pc' = "tabs"
                /\ Truthy(ret) /\ ret.kind # "dict"
                /\ session_state' = session_state
                /\ requested' = requested /\ Len(requested) = hstep
          /\ (status_text = PausedStatus /\ status_text' = PausedStatus) =>
                requested' = requested /\ sent' = 0
         ]_vars

\* the except clause was reached at a step after the first, with results of the
\* completed steps in generated_sow, in a session whose flag an earlier run had set
C11_Witness ==
    /\ pc = "tabs"
    /\ status_text = PausedStatus
    /\ Done
    /\ Len(requested) \in 2..7
    /\ DOMAIN generated_sow # {}
    /\ generated_sow # session_state.autofill_data

\* a returned value the claim calls None or an empty result
EmptyResult(r) == r.kind = "None" \/ (r.kind = "dict" /\ DOMAIN r.d = {})

\* positions of the calls that succeeded: a dictionary with keys came back
SucceededAt(rs) == {j \in 1..Len(rs) : rs[j].kind = "dict" /\ DOMAIN rs[j].d # {}}

\* the latest of the calls that succeeded and returned key x
LatestWith(rs, x) ==
    CHOOSE j \in SucceededAt(rs) :
        /\ x \in DOMAIN rs[j].d
        /\ \A n \in SucceededAt(rs) : x \in DOMAIN rs[n].d => n <= j

\* the union of the returned keys, each with the value of the latest call that
\* returned it
UnionOfResults(rs) ==
    [x \in UNION {DOMAIN rs[j].d : j \in SucceededAt(rs)} |-> rs[LatestWith(rs, x)].d[x]]

\* C12: a section call that returns None or an empty dictionary leaves generated_sow
\* unchanged and the handler goes on to the next step, which requests its section;
\* throughout the handler generated_sow is the union of the results of the calls
\* that succeeded so far, a later result overwriting an earlier one on the same key,
\* and the Finalize step, reached with all 8 sections requested, stores exactly
\* that union as autofill_data.
C12_EmptyResultSkipped ==
    /\ [](pc = "handler" =>
              /\ Len(results) = hstep - 1
              /\ generated_sow = UnionOfResults(results))
    /\ [][/\ (pc = "handler" /\ fn = "json" /\ ret.kind # "pending" /\ EmptyResult(ret)) =>
                /\ generated_sow' = generated_sow
                /\ pc' = "handler" /\ hstep' = hstep + 1
                /\ status_text' # PausedStatus
          /\ (pc = "handler" /\ hstep \in 1..NumSections /\ fn = "none") =>
                requested' = Append(requested, hstep)
          /\ (pc = "handler" /\ status_text' = SuccessStatus) =>
                /\ Len(results) = NumSections
                /\ requested = [j \in 1..NumSections |-> j]
                /\ session_state'.autofill_data = UnionOfResults(results)
                /\ session_state'.autofill_done
         ]_vars

\* a run ended in success in which one call returned None, another an empty
\* dictionary, and the third result overwrote the objective of the first
C12_Witness ==
    /\ pc = "tabs" /\ trigger = "generate"
    /\ status_text = SuccessStatus
    /\ Len(results) = NumSections
    /\ \E j \in 1..NumSections : results[j].kind = "None"
    /\ results[1] = PyDict(FullDict(1))
    /\ results[3] = PyDict(ExtraDict(3))
    /\ session_state.autofill_data.objective = 3
    /\ DOMAIN session_state.autofill_data # ClaimedKeys

====
